---- MODULE Spec2Model ----
(***************************************************************************)
(* Model of nomad_material_processing/__init__.py:                         *)
(*   - SampleDeposition.is_serial   (temporal ordering of the steps)       *)
(*   - SampleDeposition.normalize   (synthesis of the chained task list)   *)
(*   - ThinFilmStack.normalize      (flattening layers + substrate)        *)
(*                                                                         *)
(* Times are whole seconds: step.start_time.timestamp() and                *)
(* step.duration.to('s').magnitude both yield a number of seconds, and the *)
(* model stores the step's timing already as that number.  An optional     *)
(* value (a quantity or sub-section that may be unset) is None or Some(v). *)
(***************************************************************************)
EXTENDS Integers, Sequences, FiniteSets, TLC

VARIABLES
    steps,        \* SampleDeposition.steps: sequence of step records
    tasks,        \* archive.workflow2.tasks: sequence of task records
    serial,       \* what the last call of is_serial returned
    synthesized,  \* the last normalize ran the synthesis loop (lines 803-811)
    published,    \* the last normalize assigned archive.workflow2.tasks (line 812)
    layers,       \* ThinFilmStack.layers: sequence of ThinFilmReference.reference
    substrate,    \* ThinFilmStack.substrate: None or a SubstrateReference record
    components,   \* ThinFilmStack.components: sequence of SystemComponent.system
    outcome,      \* how the last ThinFilmStack.normalize ended
    before,       \* the list the last normalize found in the field it writes
    last          \* the operation that produced the current state

vars == <<steps, tasks, serial, synthesized, published,
          layers, substrate, components, outcome, before, last>>

processVars == <<steps, tasks, serial, synthesized, published>>
stackVars == <<layers, substrate, components, outcome>>

\* Python's None, and a value that is set
None == <<>>
Some(v) == <<v>>

\* ------------------------------------------------------------------ bounds
MaxTime == 2
MaxDur == 1
MaxSteps == 3
MaxProcSteps == 2
MaxLayers == 3

\* ------------------------------------------------------- sequence helpers
SeqsUpTo(S, n) == UNION {[1..k -> S] : k \in 0..n}

\* ------------------------------------------------------------ step records
Names == {"A", "B"}
\* "bare": to_task() returns a task without links; "sourced": the step
\* subtype's to_task() pre-populates one input and one output of its own.
Kinds == {"bare", "sourced"}
StartTimes == {None} \cup {Some(t) : t \in 0..MaxTime}
Durations == {None} \cup {Some(d) : d \in -1..MaxDur}

Step(n, k, st, d) == [name |-> n, kind |-> k, start_time |-> st, duration |-> d]

\* ---------------------------------------------- SampleDeposition.is_serial
\* line 780: the step passes the None check
HasTiming(step) == step.start_time # None /\ step.duration # None

\* line 782: step.start_time.timestamp(), seconds since the epoch
timestamp(start_time) == start_time[1]

\* line 783: step.duration.to('s').magnitude, a number of seconds
to_seconds(duration) == duration[1]

\* lines 782, 784
start_times(s) == [i \in 1..Len(s) |-> timestamp(s[i].start_time)]

\* lines 783, 785
durations(s) == [i \in 1..Len(s) |-> to_seconds(s[i].duration)]

\* line 786
end_times(s) == [i \in 1..Len(s) |-> start_times(s)[i] + durations(s)[i]]

\* line 787: start_times[1:] - end_times[:-1]
diffs(s) == [i \in 1..(Len(s) - 1) |-> start_times(s)[i + 1] - end_times(s)[i]]

\* is_serial with "diffs <= 0" at line 788: back-to-back steps are rejected
is_serial_strict_gap(s) ==
    IF \E i \in 1..Len(s) : ~HasTiming(s[i])
    THEN FALSE
    ELSE IF \E i \in 1..(Len(s) - 1) : diffs(s)[i] <= 0
         THEN FALSE
         ELSE TRUE

\* is_serial with "continue" at line 781: steps without timing are left out
is_serial_skip_untimed(s) ==
    LET timed == SelectSeq(s, HasTiming)
    IN  IF \E i \in 1..(Len(timed) - 1) : diffs(timed)[i] < 0
        THEN FALSE
        ELSE TRUE

\* is_serial with np.all at line 788: one non-overlapping pair is enough
is_serial_all_overlap(s) ==
    IF \E i \in 1..Len(s) : ~HasTiming(s[i])
    THEN FALSE
    ELSE IF Len(s) > 1 /\ \A i \in 1..(Len(s) - 1) : diffs(s)[i] < 0
         THEN FALSE
         ELSE TRUE

\* is_serial that answers False when there is no adjacent pair to compare
is_serial_needs_pair(s) ==
    IF \E i \in 1..Len(s) : ~HasTiming(s[i])
    THEN FALSE
    ELSE IF Len(s) < 2 \/ \E i \in 1..(Len(s) - 1) : diffs(s)[i] < 0
         THEN FALSE
         ELSE TRUE

\* is_serial with "diffs[0] < 0" at line 788: only the first pair is compared
is_serial_first_pair(s) ==
    IF \E i \in 1..Len(s) : ~HasTiming(s[i])
    THEN FALSE
    ELSE IF Len(s) > 1 /\ diffs(s)[1] < 0
         THEN FALSE
         ELSE TRUE

\* lines 777-790
is_serial(s) ==
    IF \E i \in 1..Len(s) : ~HasTiming(s[i])
    THEN FALSE
    ELSE IF \E i \in 1..(Len(s) - 1) : diffs(s)[i] < 0
         THEN FALSE
         ELSE TRUE

\* is_serial sorting self.steps by start time before comparing them (one
\* pass: the first adjacent pair out of order is swapped)
steps_after_is_serial_reordering(s) ==
    LET timed == \A i \in 1..Len(s) : HasTiming(s[i])
        inverted == {i \in 1..(Len(s) - 1) :
                        timed /\ s[i + 1].start_time[1] < s[i].start_time[1]}
    IN  IF inverted = {}
        THEN s
        ELSE LET i == CHOOSE k \in inverted : \A j \in inverted : k <= j
             IN  [s EXCEPT ![i] = s[i + 1], ![i + 1] = s[i]]

\* lines 777-790: self.steps after is_serial.  The method reads
\* step.start_time and step.duration and assigns only to its locals.
steps_after_is_serial(s) == s

\* ------------------------------------------------- specification SpecSerial
\* is_serial as a function of the step list: every step list within the
\* bounds is an input, and the one action calls is_serial on it.
TimedSteps == {Step("A", "bare", st, d) : st \in StartTimes, d \in Durations}

InitSerial ==
    /\ steps \in SeqsUpTo(TimedSteps, MaxSteps)
    /\ tasks = <<>>
    /\ serial = FALSE
    /\ synthesized = FALSE
    /\ published = FALSE
    /\ layers = <<>>
    /\ substrate = None
    /\ components = <<>>
    /\ outcome = "none"
    /\ before = <<>>
    /\ last = "init"

CallIsSerial ==
    /\ serial' = is_serial(steps)
    /\ last' = "is_serial"
    /\ steps' = steps_after_is_serial(steps)
    /\ UNCHANGED <<tasks, synthesized, published, before>>
    /\ UNCHANGED stackVars

NextSerial == CallIsSerial

SpecSerial == InitSerial /\ [][NextSerial]_vars

\* ---------------------------------------------- SampleDeposition.normalize
\* Link(name=..., section=...): a named reference to a section of the archive
Link(n, target) == [name |-> n, section |-> target]

\* the reference to self.steps[i]
StepRef(i) == [path |-> "steps", index |-> i]

\* line 806: step.to_task(), defined by the step's class outside this
\* package.  It returns a new task named after the step; a "sourced" step
\* class pre-populates links to sections of its own, which are not steps.
to_task(step, i) ==
    [name |-> step.name,
     inputs |-> IF step.kind = "sourced"
                THEN <<Link("source", [path |-> "sources", index |-> i])>>
                ELSE <<>>,
     outputs |-> IF step.kind = "sourced"
                 THEN <<Link("product", [path |-> "products", index |-> i])>>
                 ELSE <<>>]

\* lines 806-809 with "if previous is not None" dropped: the first task is
\* linked to itself
chain_task_always_input(s, i) ==
    LET task == to_task(s[i], i)
        previous == IF i > 1 THEN i - 1 ELSE i
    IN  [name |-> task.name,
         outputs |-> Append(task.outputs, Link(s[i].name, StepRef(i))),
         inputs |-> Append(task.inputs, Link(s[previous].name, StepRef(previous)))]

\* lines 806-809: the task of step i; previous is step i - 1, None for the
\* first step
chain_task(s, i) ==
    LET task == to_task(s[i], i)
    IN  [name |-> task.name,
         outputs |-> Append(task.outputs, Link(s[i].name, StepRef(i))),
         inputs |-> IF i > 1
                    THEN Append(task.inputs, Link(s[i - 1].name, StepRef(i - 1)))
                    ELSE task.inputs]

RECURSIVE synthesis_loop(_, _, _)
\* lines 803-811: the loop over self.steps from step i on, acc the tasks so far
synthesis_loop(s, i, acc) ==
    IF i > Len(s)
    THEN acc
    ELSE synthesis_loop(s, i + 1, Append(acc, chain_task(s, i)))

\* lines 803-811: self.steps after the synthesis loop.  The loop reads
\* step.name, calls step.to_task() and passes the step to Link(section=...);
\* it assigns to task.inputs, task.outputs and its locals only.
steps_after_synthesis(s) == s

\* line 801: super().normalize(archive, logger), defined outside this
\* package.  Depending on the archive it either leaves the task list as it
\* is or resets it to the bare tasks of the steps.
super_normalize(s, old, resets) ==
    IF resets THEN [i \in 1..Len(s) |-> to_task(s[i], i)] ELSE old

\* lines 802-812 without the "if self.is_serial()" guard
synthesis_block_unguarded(s, old) ==
    [serial |-> is_serial(s), synthesized |-> TRUE, published |-> TRUE,
     tasks |-> synthesis_loop(s, 1, <<>>)]

\* lines 802-812 with "tasks = archive.workflow2.tasks" at line 803: the
\* chain is appended to the tasks already there
synthesis_block_appending(s, old) ==
    IF is_serial(s)
    THEN [serial |-> TRUE, synthesized |-> TRUE, published |-> TRUE,
          tasks |-> synthesis_loop(s, 1, old)]
    ELSE [serial |-> FALSE, synthesized |-> FALSE, published |-> FALSE,
          tasks |-> old]

\* lines 802-812 without "previous = None" at line 804, previous kept from
\* the run before: once the workflow holds tasks, the first task is linked
\* to the last step
synthesis_block_stale_previous(s, old) ==
    IF is_serial(s)
    THEN LET chain == synthesis_loop(s, 1, <<>>)
         IN  [serial |-> TRUE, synthesized |-> TRUE, published |-> TRUE,
              tasks |-> IF old # <<>> /\ Len(s) > 0
                        THEN [chain EXCEPT ![1].inputs =
                                Append(@, Link(s[Len(s)].name, StepRef(Len(s))))]
                        ELSE chain]
    ELSE [serial |-> FALSE, synthesized |-> FALSE, published |-> FALSE,
          tasks |-> old]

\* lines 802-812: what is_serial returned, whether the loop ran, whether
\* line 812 assigned the task list, and the task list afterwards
synthesis_block(s, old) ==
    IF is_serial(s)
    THEN [serial |-> TRUE, synthesized |-> TRUE, published |-> TRUE,
          tasks |-> synthesis_loop(s, 1, <<>>)]
    ELSE [serial |-> FALSE, synthesized |-> FALSE, published |-> FALSE,
          tasks |-> old]

\* ------------------------------------------------------- specification Spec
\* A SampleDeposition entry being edited and normalized.
ProcStartTimes == {None, Some(0), Some(1)}
ProcDurations == {None, Some(1)}
ProcSteps ==
    {Step(n, k, st, d) : n \in Names, k \in Kinds,
                         st \in ProcStartTimes, d \in ProcDurations}

\* a task left in the workflow by something else than this normalizer
StaleTask == [name |-> "stale", inputs |-> <<>>, outputs |-> <<>>]
PriorTasks == {<<>>, <<StaleTask>>}

Init ==
    /\ steps = <<>>
    /\ tasks \in PriorTasks
    /\ serial = FALSE
    /\ synthesized = FALSE
    /\ published = FALSE
    /\ layers = <<>>
    /\ substrate = None
    /\ components = <<>>
    /\ outcome = "none"
    /\ before = <<>>
    /\ last = "init"

\* the author adds a step at the end of self.steps
AppendStep ==
    /\ Len(steps) < MaxProcSteps
    /\ \E step \in ProcSteps : steps' = Append(steps, step)
    /\ last' = "edit"
    /\ before' = <<>>
    /\ UNCHANGED <<tasks, serial, synthesized, published>>
    /\ UNCHANGED stackVars

\* the author sets or clears the start time or the duration of a step
SetTiming ==
    /\ \E i \in 1..Len(steps) :
          \/ \E st \in ProcStartTimes \ {steps[i].start_time} :
                steps' = [steps EXCEPT ![i].start_time = st]
          \/ \E d \in ProcDurations \ {steps[i].duration} :
                steps' = [steps EXCEPT ![i].duration = d]
    /\ last' = "edit"
    /\ before' = <<>>
    /\ UNCHANGED <<tasks, serial, synthesized, published>>
    /\ UNCHANGED stackVars

\* lines 792-812: SampleDeposition.normalize
Normalize ==
    /\ \E resets \in BOOLEAN :
          LET done == synthesis_block(steps, super_normalize(steps, tasks, resets))
          IN  /\ tasks' = done.tasks
              /\ serial' = done.serial
              /\ synthesized' = done.synthesized
              /\ published' = done.published
    /\ steps' = IF is_serial(steps_after_is_serial(steps))
                 THEN steps_after_synthesis(steps_after_is_serial(steps))
                 ELSE steps_after_is_serial(steps)
    /\ before' = tasks
    /\ last' = "normalize"
    /\ UNCHANGED stackVars

Next == AppendStep \/ SetTiming \/ Normalize

Spec == Init /\ [][Next]_vars

\* ------------------------------------------------ ThinFilmStack.normalize
FilmIds == {"F1", "F2"}
\* a ThinFilmReference of self.layers, its reference set or unset
Layers == {[reference |-> r] : r \in {None} \cup {Some(f) : f \in FilmIds}}
\* self.substrate: no sub-section, or a SubstrateReference, its reference
\* set or unset
Substrates == {None, Some([reference |-> None]), Some([reference |-> Some("S")])}

\* SystemComponent(system=...)
SystemComponent(system) == [system |-> system]

RECURSIVE layer_components(_, _)
\* lines 725-729: the comprehension over self.layers from layer i on
layer_components(ls, i) ==
    IF i > Len(ls)
    THEN <<>>
    ELSE IF ls[i].reference # None
         THEN <<SystemComponent(ls[i].reference[1])>> \o layer_components(ls, i + 1)
         ELSE layer_components(ls, i + 1)

\* lines 723-731 with the substrate put in front of the layers
stack_normalize_substrate_first(ls, sub, old) ==
    LET films == IF Len(ls) > 0 THEN layer_components(ls, 1) ELSE <<>>
    IN  IF sub = None
        THEN [components |-> films, outcome |-> "raised"]
        ELSE IF sub[1].reference # None
             THEN [components |-> <<SystemComponent(sub[1].reference[1])>> \o films,
                   outcome |-> "returned"]
             ELSE [components |-> films, outcome |-> "returned"]

\* lines 723-731 without line 723 and with "+=" at line 725: the entries
\* are added to the components already there
stack_normalize_accumulating(ls, sub, old) ==
    LET films == IF Len(ls) > 0 THEN old \o layer_components(ls, 1) ELSE old
    IN  IF sub = None
        THEN [components |-> films, outcome |-> "raised"]
        ELSE IF sub[1].reference # None
             THEN [components |-> Append(films, SystemComponent(sub[1].reference[1])),
                   outcome |-> "returned"]
             ELSE [components |-> films, outcome |-> "returned"]

\* lines 723-732: self.components afterwards and how the call ended.  old is
\* self.components on entry, which line 723 discards.  With no substrate
\* sub-section, self.substrate is None and line 730 raises AttributeError
\* after lines 723-729 have written self.components.  Line 732,
\* super().normalize, is defined outside this package and leaves
\* self.components as it is.
stack_normalize(ls, sub, old) ==
    LET films == IF Len(ls) > 0 THEN layer_components(ls, 1) ELSE <<>>
    IN  IF sub = None
        THEN [components |-> films, outcome |-> "raised"]
        ELSE IF sub[1].reference # None
             THEN [components |-> Append(films, SystemComponent(sub[1].reference[1])),
                   outcome |-> "returned"]
             ELSE [components |-> films, outcome |-> "returned"]

\* -------------------------------------------------- specification SpecStack
\* A ThinFilmStack entry being edited and normalized.
PriorComponents == {<<>>, <<SystemComponent("X")>>}

InitStack ==
    /\ steps = <<>>
    /\ tasks = <<>>
    /\ serial = FALSE
    /\ synthesized = FALSE
    /\ published = FALSE
    /\ layers = <<>>
    /\ substrate = None
    /\ components \in PriorComponents
    /\ outcome = "none"
    /\ before = <<>>
    /\ last = "init"

\* the author adds a layer on top of self.layers
AppendLayer ==
    /\ Len(layers) < MaxLayers
    /\ \E layer \in Layers : layers' = Append(layers, layer)
    /\ before' = <<>>
    /\ last' = "edit"
    /\ UNCHANGED <<substrate, components, outcome>>
    /\ UNCHANGED processVars

\* the author removes the top layer
RemoveLayer ==
    /\ Len(layers) > 0
    /\ layers' = SubSeq(layers, 1, Len(layers) - 1)
    /\ before' = <<>>
    /\ last' = "edit"
    /\ UNCHANGED <<substrate, components, outcome>>
    /\ UNCHANGED processVars

\* the author adds, removes or edits the substrate sub-section
SetSubstrate ==
    /\ \E sub \in Substrates \ {substrate} : substrate' = sub
    /\ before' = <<>>
    /\ last' = "edit"
    /\ UNCHANGED <<layers, components, outcome>>
    /\ UNCHANGED processVars

\* lines 714-732: ThinFilmStack.normalize
NormalizeStack ==
    /\ LET done == stack_normalize(layers, substrate, components)
       IN  /\ components' = done.components
           /\ outcome' = done.outcome
    /\ before' = components
    /\ last' = "stack_normalize"
    /\ UNCHANGED <<layers, substrate>>
    /\ UNCHANGED processVars

NextStack == AppendLayer \/ RemoveLayer \/ SetSubstrate \/ NormalizeStack

SpecStack == InitStack /\ [][NextStack]_vars

\* ------------------------------------------------ claims about is_serial
AllTimed(s) == \A i \in 1..Len(s) : HasTiming(s[i])

\* the gap between step i and step i + 1, as the claims state it
Gap(s, i) == s[i + 1].start_time[1] - (s[i].start_time[1] + s[i].duration[1])

\* C1: when every step has start_time and duration and every adjacent gap
\* is >= 0 (a gap of exactly 0 included), is_serial returns True.
C1_GapsNonNegativeSerial ==
    (/\ last = "is_serial"
     /\ AllTimed(steps)
     /\ \A i \in 1..(Len(steps) - 1) : Gap(steps, i) >= 0)
    => serial = TRUE

\* three timed steps, the first two back to back, the third after a pause
C1_Witness ==
    /\ last = "is_serial"
    /\ Len(steps) = 3
    /\ AllTimed(steps)
    /\ Gap(steps, 1) = 0
    /\ Gap(steps, 2) > 0
    /\ serial = TRUE

\* C2: when at least one step, at any position, lacks start_time or
\* duration, is_serial returns False whatever the timing of the others.
C2_MissingTimingNotSerial ==
    (/\ last = "is_serial"
     /\ \E i \in 1..Len(steps) : ~HasTiming(steps[i]))
    => serial = FALSE

\* only the last of three steps lacks its duration; the others are serial
C2_Witness ==
    /\ last = "is_serial"
    /\ Len(steps) = 3
    /\ HasTiming(steps[1]) /\ HasTiming(steps[2])
    /\ Gap(steps, 1) >= 0
    /\ steps[3].start_time # None /\ steps[3].duration = None
    /\ serial = FALSE

\* C3: when some adjacent pair has the later step starting strictly before
\* the earlier one ends, is_serial returns False.
C3_OverlapNotSerial ==
    (/\ last = "is_serial"
     /\ \E i \in 1..(Len(steps) - 1) :
            /\ HasTiming(steps[i]) /\ HasTiming(steps[i + 1])
            /\ steps[i + 1].start_time[1]
                   < steps[i].start_time[1] + steps[i].duration[1])
    => serial = FALSE

\* three timed steps: the first pair does not overlap, the second does
C3_Witness ==
    /\ last = "is_serial"
    /\ Len(steps) = 3
    /\ AllTimed(steps)
    /\ Gap(steps, 1) >= 0
    /\ Gap(steps, 2) < 0
    /\ serial = FALSE

\* C4 as stated: is_serial returns True for every empty and every
\* single-element step sequence.
C4_ShortAlwaysSerial ==
    (last = "is_serial" /\ Len(steps) <= 1) => serial = TRUE

\* C4 as amended: on an empty or single-element sequence is_serial returns
\* True exactly when the step, if there is one, has start_time and duration.
C4_ShortSerialIffTimed ==
    (last = "is_serial" /\ Len(steps) <= 1) => (serial = AllTimed(steps))

\* a single timed step is found serial
C4_Witness ==
    /\ last = "is_serial"
    /\ Len(steps) = 1
    /\ HasTiming(steps[1])
    /\ serial = TRUE

\* ------------------------------------- claims about SampleDeposition.normalize
\* the links of a sequence of links that target a step
StepLinks(links) == {k \in 1..Len(links) : links[k].section.path = "steps"}

\* C5: after normalize on a serial step sequence there is exactly one task
\* per step, in step order; task i > 1 has exactly one input link to a
\* step, named after and targeting step i - 1; the first task has no input
\* link to a step; every task has exactly one output link to a step, named
\* after and targeting its own step.
C5_ChainOfTasks ==
    (last = "normalize" /\ serial)
    => /\ Len(tasks) = Len(steps)
       /\ \A i \in 1..Len(tasks) :
            /\ tasks[i].name = steps[i].name
            /\ Cardinality(StepLinks(tasks[i].outputs)) = 1
            /\ \A k \in StepLinks(tasks[i].outputs) :
                 tasks[i].outputs[k] = Link(steps[i].name, StepRef(i))
            /\ Cardinality(StepLinks(tasks[i].inputs)) = (IF i > 1 THEN 1 ELSE 0)
            /\ \A k \in StepLinks(tasks[i].inputs) :
                 tasks[i].inputs[k] = Link(steps[i - 1].name, StepRef(i - 1))

\* a serial pair of steps with different names, the second of a class whose
\* to_task() brings links of its own, has been normalized into two tasks
C5_Witness ==
    /\ last = "normalize"
    /\ serial
    /\ Len(steps) = 2
    /\ steps[1].name # steps[2].name
    /\ steps[2].kind = "sourced"
    /\ Len(tasks) = 2
    /\ Len(tasks[2].inputs) = 2

\* C8: normalize runs the synthesis loop and assigns
\* archive.workflow2.tasks only when is_serial returned True for the
\* current steps; after False neither happens.
C8_SynthesisOnlyWhenSerial ==
    last = "normalize"
    => /\ serial = is_serial(steps)
       /\ (synthesized \/ published) => serial
       /\ ~serial => (~synthesized /\ ~published)

\* normalize ran on two steps that are not serial and neither synthesized
\* nor published
C8_Witness ==
    /\ last = "normalize"
    /\ Len(steps) = 2
    /\ ~is_serial(steps)
    /\ ~serial
    /\ ~synthesized
    /\ ~published

\* C10: after normalize on a serial step sequence the workflow task list
\* is exactly the newly synthesized chain, one task per step, whatever the
\* list held before the call: earlier tasks are replaced, not appended to.
C10_TasksReplaced ==
    (last = "normalize" /\ serial)
    => /\ Len(tasks) = Len(steps)
       /\ \A i \in 1..Len(tasks) : tasks[i] = chain_task(steps, i)

\* normalize ran on two serial steps and found a task list that was not
\* empty and was not the chain it leaves
C10_Witness ==
    /\ last = "normalize"
    /\ serial
    /\ Len(steps) = 2
    /\ before # <<>>
    /\ before # tasks
    /\ Len(tasks) = 2

\* --------------------------------------- claims about ThinFilmStack.normalize
\* the layers whose reference is set
SetLayers == {i \in 1..Len(layers) : layers[i].reference # None}

\* the substrate sub-section is there and its reference is set
SubstrateSet == substrate # None /\ substrate[1].reference # None

\* C6: after ThinFilmStack.normalize, components has one entry per layer
\* whose reference is set, in layer order, followed by the substrate
\* reference last if it is set; layers with an unset reference are skipped.
C6_ComponentsFlattened ==
    last = "stack_normalize"
    => /\ Len(components)
            = Cardinality(SetLayers) + (IF SubstrateSet THEN 1 ELSE 0)
       /\ \A i \in SetLayers :
            components[Cardinality({j \in SetLayers : j <= i})].system
                = layers[i].reference[1]
       /\ SubstrateSet
            => components[Len(components)].system = substrate[1].reference[1]

\* layers [F, <unset>, F'] on a substrate flatten to three components
C6_Witness ==
    /\ last = "stack_normalize"
    /\ outcome = "returned"
    /\ Len(layers) = 3
    /\ layers[1].reference # None
    /\ layers[2].reference = None
    /\ layers[3].reference # None
    /\ layers[1] # layers[3]
    /\ SubstrateSet
    /\ Len(components) = 3

\* C7: normalize on a stack with no layers and no substrate sub-section
\* completes without error and leaves components empty.
C7_EmptyStackNormalizes ==
    (last = "stack_normalize" /\ layers = <<>> /\ substrate = None)
    => (outcome = "returned" /\ components = <<>>)

\* C9: ThinFilmStack.normalize replaces components wholesale and is
\* idempotent: a run that directly follows a run, layers and substrate
\* unchanged, leaves components as it found them, and what a run leaves
\* does not depend on what components held before it.
C9_NormalizeIdempotent ==
    [][/\ (last = "stack_normalize" /\ last' = "stack_normalize")
            => components' = components
       /\ last' = "stack_normalize"
            => components' = stack_normalize(layers', substrate', <<>>).components]_vars

\* a run on a stack with two set layers and a substrate found the
\* components it leaves: it followed another run
C9_Witness ==
    /\ last = "stack_normalize"
    /\ Cardinality(SetLayers) >= 2
    /\ SubstrateSet
    /\ before = components
    /\ Len(components) = 3

\* ------------------------------------------------- determinism of synthesis
\* C11: two runs of normalize in a row over the same serial step sequence
\* produce chains of the same length whose tasks have, at every position,
\* input and output links with the same names and targets.
C11_SynthesisDeterministic ==
    [][(last = "normalize" /\ serial /\ last' = "normalize")
        => /\ steps' = steps
           /\ serial'
           /\ Len(tasks') = Len(tasks)
           /\ \A i \in 1..Len(tasks) :
                /\ tasks'[i].inputs = tasks[i].inputs
                /\ tasks'[i].outputs = tasks[i].outputs]_vars

\* a run over two serial steps, the first of a class with links of its own,
\* found the very chain it leaves: it followed a run over the same steps
C11_Witness ==
    /\ last = "normalize"
    /\ serial
    /\ Len(steps) = 2
    /\ steps[1].kind = "sourced"
    /\ Len(tasks) = 2
    /\ StepLinks(tasks[2].inputs) # {}
    /\ before = tasks

\* ------------------------------------------------------- frame of normalize
\* C12: is_serial and the synthesis loop of normalize leave the step
\* sequence as it was: same length, same order, and every step with the
\* same name, start_time and duration.
C12_StepsUntouched ==
    [][last' = "normalize"
        => /\ Len(steps') = Len(steps)
           /\ \A i \in 1..Len(steps) :
                /\ steps'[i].name = steps[i].name
                /\ steps'[i].start_time = steps[i].start_time
                /\ steps'[i].duration = steps[i].duration]_vars

\* two serial steps of the same name have been synthesized into two tasks
\* and are both still there
C12_Witness ==
    /\ last = "normalize"
    /\ synthesized
    /\ Len(steps) = 2
    /\ steps[1].name = steps[2].name
    /\ steps[1].start_time # steps[2].start_time
    /\ Len(tasks) = 2

\* ------------------------------------------------ serial means no overlap
\* the durations of s are all set and non-negative
NonNegativeDurations(s) ==
    \A i \in 1..Len(s) : s[i].duration # None /\ s[i].duration[1] >= 0

\* C13: when is_serial returns True on a sequence whose durations are all
\* non-negative, every pair of steps i < j, adjacent or not, has step j
\* starting no earlier than step i ends, so the start times do not decrease.
C13_SerialMeansNoOverlapAnywhere ==
    (last = "is_serial" /\ serial /\ NonNegativeDurations(steps))
    => \A i, j \in 1..Len(steps) :
         i < j => /\ steps[j].start_time[1]
                        >= steps[i].start_time[1] + steps[i].duration[1]
                  /\ steps[j].start_time[1] >= steps[i].start_time[1]

\* three steps of positive duration found serial: the first and the third
\* are not adjacent
C13_Witness ==
    /\ last = "is_serial"
    /\ serial
    /\ Len(steps) = 3
    /\ \A i \in 1..3 : steps[i].duration # None /\ steps[i].duration[1] >= 0
    /\ steps[1].duration[1] > 0
    /\ steps[3].start_time[1] > steps[1].start_time[1]

\* ------------------------------------------- normalize on non-serial steps
\* ts is a chain that an earlier normalize synthesized: every task has its
\* output link to a step
IsChain(ts) == ts # <<>> /\ \A i \in 1..Len(ts) : StepLinks(ts[i].outputs) # {}

====
